---- MODULE Spec2Model ----
(***************************************************************************)
(* Versioned parser (createVersionedParser, src/src/index.ts): a closure    *)
(* over an ordered array of parse functions, newest first, with the four    *)
(* operations parseLatest, parseAny, parseSpecific and getAllParseFns.      *)
(***************************************************************************)
EXTENDS Integers, Sequences, FiniteSets

\* Longest array of parse functions handed to createVersionedParser.
MaxVersions == 3

\* Values of type `unknown` a caller passes as `input`: a plain object and a
\* symbol.
Inputs == {"obj", "sym"}

\* What a parse function can return, and what it can throw.
ParsedValues == {"v1", "v2"}
ParseErrors == {[class |-> "ParseError", message |-> "e1"]}

\* The two ways a call ends.
Return(v) == [kind |-> "return", payload |-> v]
Throw(e) == [kind |-> "throw", payload |-> e]

\* ParseFn: one input, returns the parsed value or throws.
ParseFn == [Inputs -> {Return(v) : v \in ParsedValues} \cup {Throw(e) : e \in ParseErrors}]

\* versions[i] with JavaScript's 0-based indexing: an element exists at
\* 0 .. length-1, any other index reads as undefined.
HasElement(vs, i) == i \in 0 .. (Len(vs) - 1)

\* versions[i](arg): the routine's own outcome, or the TypeError of calling
\* undefined.
TypeError(msg) == [class |-> "TypeError", message |-> msg]
NotAFunction == TypeError("versions[versionIndex] is not a function")
Invoke(vs, i, arg) == IF HasElement(vs, i) THEN vs[i + 1][arg] ELSE Throw(NotAFunction)

\* The record of one routine invocation made by the parser.
Invocation(i, arg) == [index |-> i, arg |-> arg]
Invocations(vs, i, arg) == IF HasElement(vs, i) THEN <<Invocation(i, arg)>> ELSE <<>>

\* `${input}`: the string conversion of the input.  A plain object
\* renders as "[object Object]", a symbol cannot be converted and throws.
TemplateString(input) ==
    CASE input = "obj" -> Return("[object Object]")
      [] input = "sym" -> Throw(TypeError("Cannot convert a Symbol value to a string"))

\* throw new Error(`Failed to parse metadata (no version matched): ${input}`)
NoMatchError(text) ==
    [class |-> "Error", message |-> "Failed to parse metadata (no version matched): " \o text]
ThrowNoMatch(input) ==
    IF TemplateString(input).kind = "throw"
        THEN TemplateString(input)
        ELSE Throw(NoMatchError(TemplateString(input).payload))

VARIABLES
    supplied,   \* the array the caller passed to createVersionedParser
    versions,   \* the array the closure holds
    pc,         \* "new", "ready", "scan" (inside parseAny's loop), "returned", "threw"
    op,         \* the operation of the current or last call
    input,      \* its input argument
    versionIndex, \* its versionIndex argument (parseSpecific)
    cursor,     \* parseAny: position of the for-of iterator in the latest scan
    calls,      \* routine invocations made by the current or last call
    outcome     \* how the last call ended

vars == <<supplied, versions, pc, op, input, versionIndex, cursor, calls, outcome>>

NoOutcome == [kind |-> "none", payload |-> "none"]
NoIndex == 0 - 1
IndexArgs == (0 - 1) .. MaxVersions

RECURSIVE SeqsUpTo(_, _)
SeqsUpTo(S, n) == IF n = 0 THEN {<<>>} ELSE SeqsUpTo(S, n - 1) \cup [1 .. n -> S]

Idle == pc \in {"ready", "returned", "threw"}
Ended(o) == IF o.kind = "return" THEN "returned" ELSE "threw"

Init ==
    /\ supplied = <<>>
    /\ versions = <<>>
    /\ pc = "new"
    /\ op = "none"
    /\ input = "none"
    /\ versionIndex = NoIndex
    /\ cursor = 0
    /\ calls = <<>>
    /\ outcome = NoOutcome

createVersionedParser ==
    /\ pc = "new"
    /\ \E vs \in SeqsUpTo(ParseFn, MaxVersions) :
        /\ supplied' = vs
        /\ versions' = vs
    /\ pc' = "ready"
    /\ UNCHANGED <<op, input, versionIndex, cursor, calls, outcome>>

\* Variant of parseLatest: falls back to the next version when the latest throws.
parseLatest_FallsBack ==
    /\ Idle
    /\ \E in \in Inputs :
        /\ input' = in
        /\ IF Invoke(versions, 0, in).kind = "throw" /\ HasElement(versions, 1)
            THEN /\ calls' = <<Invocation(0, in), Invocation(1, in)>>
                 /\ outcome' = Invoke(versions, 1, in)
            ELSE /\ calls' = Invocations(versions, 0, in)
                 /\ outcome' = Invoke(versions, 0, in)
    /\ op' = "parseLatest"
    /\ pc' = Ended(outcome')
    /\ versionIndex' = NoIndex
    /\ UNCHANGED <<supplied, versions, cursor>>

parseLatest ==
    /\ Idle
    /\ \E in \in Inputs :
        /\ input' = in
        /\ calls' = Invocations(versions, 0, in)
        /\ outcome' = Invoke(versions, 0, in)
    /\ op' = "parseLatest"
    /\ pc' = Ended(outcome')
    /\ versionIndex' = NoIndex
    /\ UNCHANGED <<supplied, versions, cursor>>

parseAnyCall ==
    /\ Idle
    /\ \E in \in Inputs : input' = in
    /\ op' = "parseAny"
    /\ pc' = "scan"
    /\ cursor' = 0
    /\ calls' = <<>>
    /\ outcome' = NoOutcome
    /\ versionIndex' = NoIndex
    /\ UNCHANGED <<supplied, versions>>

\* Variant of parseAnyAttempt: scans from the oldest version to the newest.
parseAnyAttempt_FromOldest ==
    /\ pc = "scan"
    /\ cursor < Len(versions)
    /\ calls' = Append(calls, Invocation(Len(versions) - 1 - cursor, input))
    /\ IF Invoke(versions, Len(versions) - 1 - cursor, input).kind = "return"
        THEN /\ outcome' = Invoke(versions, Len(versions) - 1 - cursor, input)
             /\ pc' = "returned"
             /\ cursor' = cursor
        ELSE /\ outcome' = outcome
             /\ pc' = "scan"
             /\ cursor' = cursor + 1
    /\ UNCHANGED <<supplied, versions, op, input, versionIndex>>

\* Variant of parseAnyAttempt: does not stop at the first success.
parseAnyAttempt_ScansOn ==
    /\ pc = "scan"
    /\ cursor < Len(versions)
    /\ calls' = Append(calls, Invocation(cursor, input))
    /\ IF Invoke(versions, cursor, input).kind = "return" /\ cursor = Len(versions) - 1
        THEN /\ outcome' = Invoke(versions, cursor, input)
             /\ pc' = "returned"
             /\ cursor' = cursor
        ELSE /\ outcome' = outcome
             /\ pc' = "scan"
             /\ cursor' = cursor + 1
    /\ UNCHANGED <<supplied, versions, op, input, versionIndex>>

\* Variant of parseAnyAttempt: moves the version that matched to the front of
\* the array, so that the next scan tries it first.
parseAnyAttempt_PromotesMatch ==
    /\ pc = "scan"
    /\ cursor < Len(versions)
    /\ calls' = Append(calls, Invocation(cursor, input))
    /\ IF Invoke(versions, cursor, input).kind = "return"
        THEN /\ outcome' = Invoke(versions, cursor, input)
             /\ pc' = "returned"
             /\ cursor' = cursor
             /\ versions' = <<versions[cursor + 1]>>
                                \o SubSeq(versions, 1, cursor)
                                \o SubSeq(versions, cursor + 2, Len(versions))
        ELSE /\ outcome' = outcome
             /\ pc' = "scan"
             /\ cursor' = cursor + 1
             /\ versions' = versions
    /\ UNCHANGED <<supplied, op, input, versionIndex>>

\* Variant of parseAnyAttempt: after a failed attempt the later versions are
\* tried on the rendered input instead of the input itself.
parseAnyAttempt_ReusesArg ==
    /\ pc = "scan"
    /\ cursor < Len(versions)
    /\ LET arg == IF cursor = 0 THEN input ELSE "obj" IN
        /\ calls' = Append(calls, Invocation(cursor, arg))
        /\ IF Invoke(versions, cursor, arg).kind = "return"
            THEN /\ outcome' = Invoke(versions, cursor, arg)
                 /\ pc' = "returned"
                 /\ cursor' = cursor
            ELSE /\ outcome' = outcome
                 /\ pc' = "scan"
                 /\ cursor' = cursor + 1
    /\ UNCHANGED <<supplied, versions, op, input, versionIndex>>

parseAnyAttempt ==
    /\ pc = "scan"
    /\ cursor < Len(versions)
    /\ calls' = Append(calls, Invocation(cursor, input))
    /\ IF Invoke(versions, cursor, input).kind = "return"
        THEN /\ outcome' = Invoke(versions, cursor, input)
             /\ pc' = "returned"
             /\ cursor' = cursor
        ELSE /\ outcome' = outcome
             /\ pc' = "scan"
             /\ cursor' = cursor + 1
    /\ UNCHANGED <<supplied, versions, op, input, versionIndex>>

parseAnyExhausted ==
    /\ pc = "scan"
    /\ cursor >= Len(versions)
    /\ outcome' = ThrowNoMatch(input)
    /\ pc' = "threw"
    /\ UNCHANGED <<supplied, versions, op, input, versionIndex, cursor, calls>>

\* Variant of parseSpecific: takes versionIndex as a 1-based position.
parseSpecific_OneBased ==
    /\ Idle
    /\ \E i \in IndexArgs, in \in Inputs :
        /\ versionIndex' = i
        /\ input' = in
        /\ calls' = Invocations(versions, i - 1, in)
        /\ outcome' = Invoke(versions, i - 1, in)
    /\ op' = "parseSpecific"
    /\ pc' = Ended(outcome')
    /\ UNCHANGED <<supplied, versions, cursor>>

\* Variant of parseSpecific: reads the array with versions.at(versionIndex),
\* where a negative index counts back from the end.
parseSpecific_At ==
    /\ Idle
    /\ \E i \in IndexArgs, in \in Inputs :
        /\ versionIndex' = i
        /\ input' = in
        /\ LET at == IF i < 0 THEN Len(versions) + i ELSE i IN
            /\ calls' = Invocations(versions, at, in)
            /\ outcome' = Invoke(versions, at, in)
    /\ op' = "parseSpecific"
    /\ pc' = Ended(outcome')
    /\ UNCHANGED <<supplied, versions, cursor>>

parseSpecific ==
    /\ Idle
    /\ \E i \in IndexArgs, in \in Inputs :
        /\ versionIndex' = i
        /\ input' = in
        /\ calls' = Invocations(versions, i, in)
        /\ outcome' = Invoke(versions, i, in)
    /\ op' = "parseSpecific"
    /\ pc' = Ended(outcome')
    /\ UNCHANGED <<supplied, versions, cursor>>

\* Variant of getAllParseFns: returns the versions oldest first.
getAllParseFns_Reversed ==
    /\ Idle
    /\ op' = "getAllParseFns"
    /\ input' = "none"
    /\ versionIndex' = NoIndex
    /\ calls' = <<>>
    /\ outcome' = Return([j \in 1 .. Len(versions) |-> versions[Len(versions) + 1 - j]])
    /\ pc' = "returned"
    /\ UNCHANGED <<supplied, versions, cursor>>

getAllParseFns ==
    /\ Idle
    /\ op' = "getAllParseFns"
    /\ input' = "none"
    /\ versionIndex' = NoIndex
    /\ calls' = <<>>
    /\ outcome' = Return(versions)
    /\ pc' = "returned"
    /\ UNCHANGED <<supplied, versions, cursor>>

Next ==
    \/ createVersionedParser
    \/ parseLatest
    \/ parseAnyCall
    \/ parseAnyAttempt
    \/ parseAnyExhausted
    \/ parseSpecific
    \/ getAllParseFns

Spec == Init /\ [][Next]_vars
----------------------------------------------------------------------------
(* What the claims speak of, stated on the array supplied at construction. *)

Completed == pc \in {"returned", "threw"}

\* Invoking the index-i routine of vs directly on arg.
Direct(vs, i, arg) == vs[i + 1][arg]
Accepts(vs, i, arg) == Direct(vs, i, arg).kind = "return"
AcceptingIndices(vs, arg) == {i \in 0 .. (Len(vs) - 1) : Accepts(vs, i, arg)}
Lowest(S) == CHOOSE i \in S : \A j \in S : i <= j

\* The aggregate no-match failure: the Error parseAny itself creates.
IsNoMatchFailure(o) ==
    /\ o.kind = "throw"
    /\ o.payload.class = "Error"
    /\ o.payload \notin ParseErrors

\* C1: when at least one routine accepts the input, parseAny returns exactly
\* the value of the lowest-index accepting routine, never that of a later one.
C1_FirstAcceptingWins ==
    (op = "parseAny" /\ Completed /\ AcceptingIndices(supplied, input) # {})
        => outcome = Direct(supplied, Lowest(AcceptingIndices(supplied, input)), input)

C1_Witness ==
    /\ op = "parseAny"
    /\ pc = "returned"
    /\ Lowest(AcceptingIndices(supplied, input)) >= 1
    /\ \E j \in AcceptingIndices(supplied, input) : Direct(supplied, j, input) # outcome

\* C2: when every routine rejects the input, parseAny raises the aggregate
\* no-match failure it creates itself: it returns no value and the failure
\* that reaches the caller is none of the per-version failures.
C2_AllRejectRaisesNoMatch ==
    (op = "parseAny" /\ Completed /\ AcceptingIndices(supplied, input) = {})
        => IsNoMatchFailure(outcome)

\* For an input the template literal can render, the failure raised when every
\* routine rejects is the aggregate one, carrying the rendering of the input.
RenderableInputRaisesNoMatch ==
    (op = "parseAny" /\ Completed /\ AcceptingIndices(supplied, input) = {}
        /\ TemplateString(input).kind = "return")
        => /\ IsNoMatchFailure(outcome)
           /\ outcome = Throw(NoMatchError(TemplateString(input).payload))

\* C3: on a non-empty list parseLatest is the index-0 routine invoked directly:
\* that routine once and no other, its value or its very failure, no fallback.
C3_LatestIsIndexZero ==
    (op = "parseLatest" /\ Completed /\ Len(supplied) >= 1)
        => /\ outcome = Direct(supplied, 0, input)
           /\ calls = <<Invocation(0, input)>>

C3_Witness ==
    /\ op = "parseLatest"
    /\ pc = "threw"
    /\ Len(supplied) >= 2
    /\ outcome.payload \in ParseErrors
    /\ Accepts(supplied, 1, input)

\* C4: for a valid index i, parseSpecific(i, input) is the index-i routine
\* invoked directly: only that routine, once, its value or its very failure.
C4_SpecificIsIndexed ==
    (op = "parseSpecific" /\ Completed /\ versionIndex \in 0 .. (Len(supplied) - 1))
        => /\ outcome = Direct(supplied, versionIndex, input)
           /\ calls = <<Invocation(versionIndex, input)>>

C4_Witness ==
    /\ op = "parseSpecific"
    /\ pc = "threw"
    /\ versionIndex = 1
    /\ outcome.payload \in ParseErrors
    /\ Accepts(supplied, 0, input)
    /\ Len(supplied) = 3
    /\ Accepts(supplied, 2, input)

\* C5: getAllParseFns returns the routines supplied at construction, same
\* length and same order, whatever calls were made before.
C5_EnumeratesSupplied ==
    (op = "getAllParseFns" /\ Completed) => outcome = Return(supplied)

C5_Witness ==
    /\ op = "getAllParseFns"
    /\ pc = "returned"
    /\ Len(outcome.payload) = 3
    /\ outcome.payload[1] # outcome.payload[2]
    /\ outcome.payload[2] # outcome.payload[3]
    /\ cursor >= 2

\* C6: within one parseAny call the routines invoked are exactly the indices
\* 0, 1, ..., k in increasing order, each once, where k is the lowest accepting
\* index, or length-1 when none accepts; nothing beyond k is invoked.
LastAttempted(vs, arg) ==
    IF AcceptingIndices(vs, arg) # {} THEN Lowest(AcceptingIndices(vs, arg)) ELSE Len(vs) - 1

C6_ScanInOrder ==
    op = "parseAny"
        => /\ \A j \in 1 .. Len(calls) : calls[j].index = j - 1
           /\ Len(calls) <= LastAttempted(supplied, input) + 1
           /\ Completed => Len(calls) = LastAttempted(supplied, input) + 1

C6_Witness ==
    /\ op = "parseAny"
    /\ pc = "returned"
    /\ Len(supplied) = 3
    /\ Len(calls) = 2
    /\ Accepts(supplied, 2, input)

\* C7: no call changes the version list, and every call's outcome is a function
\* of its own arguments and the list supplied at construction.
OutcomeOf(vs, o, arg, i) ==
    CASE o = "parseLatest" -> Invoke(vs, 0, arg)
      [] o = "parseSpecific" -> Invoke(vs, i, arg)
      [] o = "getAllParseFns" -> Return(vs)
      [] o = "parseAny" ->
            IF AcceptingIndices(vs, arg) # {}
                THEN Direct(vs, Lowest(AcceptingIndices(vs, arg)), arg)
                ELSE ThrowNoMatch(arg)

C7_RegistryUnchanged ==
    /\ [](Completed => outcome = OutcomeOf(supplied, op, input, versionIndex))
    /\ [][pc # "new" => versions' = versions]_vars

C7_Witness ==
    /\ op = "parseSpecific"
    /\ pc = "returned"
    /\ cursor = Len(supplied)
    /\ Len(supplied) >= 2
    /\ versions = supplied

\* C8: on a parser built from an empty list parseAny raises the aggregate
\* no-match failure for every input, invoking no routine.
C8_EmptyListRaisesNoMatch ==
    (op = "parseAny" /\ Completed /\ supplied = <<>>)
        => /\ IsNoMatchFailure(outcome)
           /\ calls = <<>>

\* C9: parseSpecific with an index outside 0..length-1 ends in the failure of
\* calling a nonexistent routine (no dedicated out-of-range failure), returns
\* no value, invokes no registered routine and leaves the list unchanged.
C9_OutOfRangeThrowsTypeError ==
    (op = "parseSpecific" /\ Completed /\ versionIndex \notin 0 .. (Len(supplied) - 1))
        => /\ outcome = Throw(NotAFunction)
           /\ calls = <<>>
           /\ versions = supplied

C9_Witness ==
    /\ op = "parseSpecific"
    /\ pc = "threw"
    /\ Len(supplied) >= 2
    /\ versionIndex \in {0 - 1, Len(supplied)}
    /\ \A i \in 0 .. (Len(supplied) - 1) : Accepts(supplied, i, input)

\* C10: every routine attempted by parseAny is invoked with the caller's
\* original input, also after earlier routines have failed.
C10_OriginalInputPassed ==
    op = "parseAny" => \A j \in 1 .. Len(calls) : calls[j].arg = input

C10_Witness ==
    /\ op = "parseAny"
    /\ Len(calls) = 3
    /\ input = "sym"
====
